---- MODULE Spec2Model ----
(***************************************************************************)
(* Model of pyjoycon.procon.ProController: the construction sequence, the  *)
(* command/response channel, the SPI flash reader, the calibration loader, *)
(* the background poller and the connection lifecycle, together with the   *)
(* HID device they talk to.  Bytes are integers 0..255; a report is a      *)
(* sequence of bytes.  Python indexes from 0, TLA+ from 1: At(s, i) is the *)
(* Python s[i] and Slice(s, a, b) the Python s[a:b].                       *)
(***************************************************************************)
EXTENDS Integers, Sequences, FiniteSets, TLC

(* ---------------------------------------------------------------- bounds *)
\* What the caller does after construction: calls of _spi_flash_read,
\* set_player_lamp and disconnect_device, and hooks appended.
MaxCalls == 2
\* The same, in the run of sends SpecSend follows.
MaxBurst == 12
\* Reports the device emits on its own (not as a reply to a subcommand).
MaxSpont == 1
\* Reports the HID input queue holds.
MaxQueue == 3
\* Writes the device fails (by returning -1 or by raising).
MaxFaults == 1

(* ------------------------------------------------------------- constants *)
_INPUT_REPORT_SIZE == 49
_RUMBLE_DATA == <<0, 1, 64, 64, 0, 1, 64, 64>>
_SPI_COLOR_DATA_ADDR == 24656
_SPI_IMU_USER_CAL_ADDR == 32808
_SPI_IMU_FACTORY_CAL_ADDR == 24608
_SPI_STICK_CAL_ADDR == 24637
SPI_IMU_MARKER_ADDR == 32806
SPI_MAX_SIZE == 29
ACCEL_DIVISOR == 16384
GYRO_DIVISOR == 13371

(* ------------------------------------------------------------ byte tools *)
Min(a, b) == IF a < b THEN a ELSE b

At(s, i) == s[i + 1]

Slice(s, a, b) == SubSeq(s, a + 1, Min(b, Len(s)))

RECURSIVE Pow256(_)
Pow256(k) == IF k = 0 THEN 1 ELSE 256 * Pow256(k - 1)

\* int.to_bytes(k, "little")
ToBytesLittle(n, k) == [i \in 1..k |-> (n \div Pow256(i - 1)) % 256]

\* x & 0x80
And80(x) == IF (x \div 128) % 2 = 1 THEN 128 ELSE 0

\* x & 0xF
AndF(x) == x % 16

\* bytes(n): n zero bytes
ZeroBytes(n) == [i \in 1..n |-> 0]

\* a report of _INPUT_REPORT_SIZE bytes, zero except where `set` gives a byte
\* (set maps Python offsets to bytes)
MkReport(set) ==
    [i \in 1.._INPUT_REPORT_SIZE |->
        IF (i - 1) \in DOMAIN set THEN set[i - 1] ELSE 0]

(* ---------------------------------------------------------- output report *)
\* b''.join([command, packet_number, _RUMBLE_DATA, subcommand, argument])
OutputReport(command, pkt, subcommand, argument) ==
    <<command, pkt>> \o _RUMBLE_DATA \o <<subcommand>> \o argument

\* The increment of the packet counter (mutant: the mask is lost).
NextPacketNumberNoMask(n) == n + 1

NextPacketNumber(n) == (n + 1) % 16

(* ------------------------------------------------------------- SPI reader *)
\* The size precondition of _spi_flash_read (mutant: the assert is gone).
SpiSizeOkNoAssert(size) == TRUE

SpiSizeOk(size) == size <= SPI_MAX_SIZE

\* address.to_bytes(4, "little") + size.to_bytes(1, "little")
SpiArgument(address, size) ==
    ToBytesLittle(address, 4) \o ToBytesLittle(size, 1)

\* the reply filter of _send_subcmd_get_response (mutants: accepts any
\* report; takes a full report for a reply too)
IsSubcmdReplyAny(report) == TRUE

IsSubcmdReplyOrFull(report) == At(report, 0) \in {33, 48}

IsSubcmdReply(report) == At(report, 0) = 33

\* the value _send_subcmd_get_response returns: (report[13] & 0x80, report[13:])
SubcmdAck(report) == And80(At(report, 13))

SubcmdPayload(report) == Slice(report, 13, Len(report))

\* the checks of _spi_flash_read on (ack, report): "ok", or the error raised
\* (mutant: the echoed head is not looked at)
SpiCheckAckOnly(ackv, pl) ==
    IF ackv = 0 THEN "IOError_read_failed" ELSE "ok"

SpiCheck(ackv, pl) ==
    IF ackv = 0 THEN "IOError_read_failed"
    ELSE IF Slice(pl, 0, 2) # <<144, 16>> THEN "IOError_unexpected"
    ELSE "ok"

\* return report[7:size+7]  (mutant: the slice starts at 6)
SpiDataFrom6(pl, size) == Slice(pl, 6, size + 6)

SpiData(pl, size) == Slice(pl, 7, size + 7)

(* ------------------------------------------------------- calibration model *)
\* to_int16le(hbyte, lbyte) of _set_imu_calibration (mutant: the first
\* argument taken as the high byte, as its name says)
to_int16le_high_first(hbyte, lbyte) ==
    LET uint16le == hbyte * 256 + lbyte
    IN  IF uint16le < 32768 THEN uint16le ELSE uint16le - 65536

to_int16le(hbyte, lbyte) ==
    LET uint16le == lbyte * 256 + hbyte
    IN  IF uint16le < 32768 THEN uint16le ELSE uint16le - 65536

\* D / c if c != D else 1, as the fraction <<numerator, denominator>>
Coefficient(D, c) == IF c # D THEN <<D, c>> ELSE <<1, 1>>

\* D / c raises ZeroDivisionError
CoefficientRaises(D, c) == c # D /\ c = 0

\* the three assignments _x, _y, _z of a setter, in order, stopping at the
\* first one that raises
SetCoefficients(old, D, c3) ==
    [i \in 1..3 |->
        IF \E j \in 1..i : CoefficientRaises(D, c3[j]) THEN old[i]
        ELSE Coefficient(D, c3[i])]

SetRaises(D, c3) == \E j \in 1..3 : CoefficientRaises(D, c3[j])

\* the i-th (0-based) int16 of the calibration bytes
CalValue(cal, i) == to_int16le(At(cal, 2 * i), At(cal, 2 * i + 1))

CalTriple(cal, i) == <<CalValue(cal, i), CalValue(cal, i + 1), CalValue(cal, i + 2)>>

\* _set_imu_calibration(cal_data) applied to the profile `old`; exc is the
\* exception it raises, or "none"
SetImuCalibration(old, cal) ==
    IF Len(cal) < 12 THEN [old EXCEPT !.exc = "IndexError"]
    ELSE LET a == [old EXCEPT !.accel_offset = CalTriple(cal, 0),
                              !.accel_coeff =
                                  SetCoefficients(old.accel_coeff, ACCEL_DIVISOR,
                                                  CalTriple(cal, 3))]
         IN  IF SetRaises(ACCEL_DIVISOR, CalTriple(cal, 3))
             THEN [a EXCEPT !.exc = "ZeroDivisionError"]
             ELSE IF Len(cal) < 24 THEN [a EXCEPT !.exc = "IndexError"]
             ELSE LET g == [a EXCEPT !.gyro_offset = CalTriple(cal, 6),
                                     !.gyro_coeff =
                                         SetCoefficients(a.gyro_coeff, GYRO_DIVISOR,
                                                         CalTriple(cal, 9))]
                  IN  IF SetRaises(GYRO_DIVISOR, CalTriple(cal, 9))
                      THEN [g EXCEPT !.exc = "ZeroDivisionError"]
                      ELSE g

\* the profile after set_accel_calibration((0,0,0),(1,1,1)) and
\* set_gyro_calibration((0,0,0),(1,1,1))
DefaultCalibration ==
    [accel_offset |-> <<0, 0, 0>>,
     accel_coeff  |-> SetCoefficients(<<0, 0, 0>>, ACCEL_DIVISOR, <<1, 1, 1>>),
     gyro_offset  |-> <<0, 0, 0>>,
     gyro_coeff   |-> SetCoefficients(<<0, 0, 0>>, GYRO_DIVISOR, <<1, 1, 1>>),
     exc          |-> "none"]

(* ------------------------------------------------------------- the device *)
\* What the flash holds: user calibration present, factory calibration only,
\* or factory calibration only and erased to zero.
FlashVariants == {"user", "factory", "zerocal"}

ColorBytes == <<50, 51, 52, 255, 254, 253>>

\* accel offsets (-2, 3, -32768), coefficients (0x4000, 0x4000, 0x4001);
\* gyro offsets (5, -5, 0), coefficients (0x343B, 0x343B, 0x33E6)
UserCalBytes ==
    <<254, 255, 3, 0, 0, 128, 0, 64, 0, 64, 1, 64,
      5, 0, 251, 255, 0, 0, 59, 52, 59, 52, 230, 51>>

FlashByte(variant, a) ==
    IF a >= _SPI_COLOR_DATA_ADDR /\ a < _SPI_COLOR_DATA_ADDR + 6
        THEN ColorBytes[a - _SPI_COLOR_DATA_ADDR + 1]
    ELSE IF a >= SPI_IMU_MARKER_ADDR /\ a < SPI_IMU_MARKER_ADDR + 2
        THEN IF variant = "user" THEN <<178, 161>>[a - SPI_IMU_MARKER_ADDR + 1]
             ELSE 255
    ELSE IF a >= _SPI_IMU_USER_CAL_ADDR /\ a < _SPI_IMU_USER_CAL_ADDR + 24
        THEN UserCalBytes[a - _SPI_IMU_USER_CAL_ADDR + 1]
    ELSE IF a >= _SPI_IMU_FACTORY_CAL_ADDR /\ a < _SPI_IMU_FACTORY_CAL_ADDR + 24
        THEN IF variant = "zerocal" THEN 0 ELSE (a % 256) + 1
    ELSE a % 256

RECURSIVE FromBytesLittle(_)
FromBytesLittle(s) ==
    IF s = <<>> THEN 0 ELSE Head(s) + 256 * FromBytesLittle(Tail(s))

\* the heads (bytes 13, 14) a reply to subcommand 0x10 may carry: accepted,
\* ack bit cleared, ack bit set but not 0x90
SpiReplyHeads == {<<144, 16>>, <<16, 16>>, <<128, 16>>}

\* the device's 0x21 reply to the output report `out`
DeviceReply(variant, out, head) ==
    LET subcommand == At(out, 10)
        address == FromBytesLittle(Slice(out, 11, 15))
        size == At(out, 15)
    IN  MkReport([i \in 0..(_INPUT_REPORT_SIZE - 1) |->
                    IF i = 0 THEN 33
                    ELSE IF subcommand # 16
                        THEN IF i = 13 THEN 128
                             ELSE IF i = 14 THEN subcommand ELSE 0
                    ELSE IF i = 13 THEN head[1]
                    ELSE IF i = 14 THEN head[2]
                    ELSE IF i >= 15 /\ i < 20 THEN At(out, i - 4)
                    ELSE IF i >= 20 /\ i < 20 + size
                        THEN FlashByte(variant, address + i - 20)
                    ELSE 0])

\* reports the device sends on its own: two 0x30 reports
Report30A == MkReport(0 :> 48 @@ 2 :> 240 @@ 3 :> 8 @@ 6 :> 255 @@ 7 :> 15)

Report30B == MkReport(0 :> 48 @@ 2 :> 160 @@ 4 :> 16 @@ 13 :> 254 @@ 14 :> 255)

SpontaneousReports == {Report30A, Report30B}

\* the HID input queue keeps at most MaxQueue reports; a report arriving at
\* a full queue is lost
Enqueue(q, r) == IF Len(q) < MaxQueue THEN Append(q, r) ELSE q

(* ------------------------------------------------------------------ state *)
VARIABLES
    \* the controller object
    _procon_device,  \* TRUE while the attribute exists
    _packet_number,
    _input_report,
    _input_hooks,    \* the hooks, each named by the order of its registration
    calibration,     \* _accel_offset_*, _accel_coeff_*, _gyro_offset_*, _gyro_coeff_*
    color_body, color_btn,
    \* the device behind the handle
    handle,          \* "none", "open", "closed"
    flash,           \* the flash variant of this device
    devq,            \* input reports waiting to be read
    lastWrite,       \* the last output report handed to write()
    \* the caller's thread
    cpc,             \* position in __init__ or in the API call in progress
    cres,            \* the latest call of the caller (__init__ first) and its
                     \* outcome: none yet, ok with a value, raise with an error
    sub,             \* position inside _spi_flash_read: none, write, read, check
    spi,             \* (address, size) of the latest _spi_flash_read
    creport,         \* local `report` of _send_subcmd_get_response
    ack, payload,    \* locals `ack, report` of _spi_flash_read
    \* the worker thread
    wpc,             \* none, read, store, hooks, inhook, dead
    wreport,         \* local `report` of _update_input_report
    widx,            \* index of the for loop over _input_hooks
    \* history
    done,            \* steps of __init__ that completed
    rcdLog,          \* (address, size) of the SPI reads of _read_controller_data
    marker,          \* the bytes the marker read returned
    cdisc,           \* first bytes of the reports the current call discarded
    callW0, callR0,  \* device writes and caller reads before the latest
                     \* _spi_flash_read
    pktLog,          \* the counter at construction and after each send
    sendCalls,       \* calls of _write_output_report
    devWrites,       \* calls of write on the handle
    creads, wreads,  \* calls of read on the handle, per thread
    accepted,        \* 0x30 reports the worker read
    rounds,          \* assignments of _input_report by the worker, each the
                     \* start of a hook round
    hookLog,         \* indices of the hooks invoked in the current round
    emitted,         \* reports the device sent on its own
    calls,           \* calls and hook registrations after construction
    faults,          \* writes the device failed
    closeCalls,      \* calls of close on the handle
    \* get_status
    snapshot,        \* the groups of the dict get_status has built so far:
                     \* battery, buttons, analog-sticks, accel, gyro
    \* a function applied on its own
    arg, res         \* its argument and its result, <<>> while there is none

sendVars == <<_packet_number, pktLog, sendCalls, devWrites, devq, lastWrite,
              faults>>
closeVars == <<_procon_device, handle, closeCalls>>
ctlVars == <<cpc, cres>>
spiVars == <<sub, spi, callW0, callR0, creport, ack, payload, cdisc>>
workerVars == <<wpc, wreport, widx, wreads, accepted, rounds, hookLog>>
calVars == <<calibration, color_body, color_btn>>
ctorVars == <<done, rcdLog, marker>>
otherVars == <<_input_report, _input_hooks, flash, creads, emitted, calls>>
\* (faults is changed by _write_output_report only and listed with sendVars)
statusVars == <<snapshot>>
pureVars == <<arg, res>>
vars == <<sendVars, closeVars, ctlVars, spiVars, workerVars, calVars, ctorVars,
          otherVars, statusVars, pureVars>>

CtorStages == {"open", "rcd_color", "rcd_marker", "rcd_imu", "rcd_stick",
               "setup_imu", "setup_mode", "start"}

Begun(of) == [of |-> of, kind |-> "none", val |-> <<>>]
Raised(of, exc) == [of |-> of, kind |-> "raise", val |-> exc]
Returned(of, v) == [of |-> of, kind |-> "ok", val |-> v]

\* __init__ up to and including the default calibration (lines 27-39)
Init ==
    /\ _procon_device = FALSE
    /\ _packet_number = 0
    /\ _input_report = ZeroBytes(_INPUT_REPORT_SIZE)
    /\ _input_hooks = <<>>
    /\ calibration = DefaultCalibration
    /\ color_body = <<>>
    /\ color_btn = <<>>
    /\ handle = "none"
    /\ flash \in FlashVariants
    /\ devq = <<>>
    /\ lastWrite = <<>>
    /\ cpc = "open"
    /\ cres = Begun("__init__")
    /\ sub = "none"
    /\ spi = [address |-> 0, size |-> 0]
    /\ creport = <<>>
    /\ ack = 0
    /\ payload = <<>>
    /\ wpc = "none"
    /\ wreport = <<>>
    /\ widx = 0
    /\ done = {}
    /\ rcdLog = <<>>
    /\ marker = <<>>
    /\ cdisc = <<>>
    /\ callW0 = 0
    /\ callR0 = 0
    /\ pktLog = <<0>>
    /\ sendCalls = 0
    /\ devWrites = 0
    /\ creads = 0
    /\ wreads = 0
    /\ accepted = 0
    /\ rounds = 0
    /\ hookLog = <<>>
    /\ emitted = 0
    /\ calls = 0
    /\ faults = 0
    /\ closeCalls = 0
    /\ snapshot = <<>>
    /\ arg = <<>>
    /\ res = <<>>

(* ------------------------------------------------------ _write_output_report *)
\* What write() on the handle may do: accept the report, return -1 (hidapi),
\* or raise (hid).  Without the attribute the call raises AttributeError
\* before anything is written.
WriteOutcomes == {"ok", "error_return", "raise"}

WriteError == IF _procon_device THEN "IOError_write" ELSE "AttributeError"

_write_output_report(command, subcommand, argument, outcome, head) ==
    LET out == OutputReport(command, _packet_number, subcommand, argument)
    IN  /\ sendCalls' = sendCalls + 1
        /\ IF ~_procon_device
           THEN /\ outcome = "raise"
                /\ UNCHANGED <<_packet_number, pktLog, devq, lastWrite, devWrites,
                               faults>>
           ELSE /\ devWrites' = devWrites + 1
                /\ lastWrite' = out
                /\ IF outcome = "ok" THEN UNCHANGED faults
                   ELSE faults < MaxFaults /\ faults' = faults + 1
                /\ devq' = IF outcome = "ok"
                           THEN Enqueue(devq, DeviceReply(flash, out, head))
                           ELSE devq
                /\ IF outcome = "raise"
                   THEN UNCHANGED <<_packet_number, pktLog>>
                   ELSE /\ _packet_number' = NextPacketNumber(_packet_number)
                        /\ pktLog' = Append(pktLog, NextPacketNumber(_packet_number))

\* a write whose reply carries no choice (not an SPI read)
PlainWrite(subcommand, argument, outcome) ==
    _write_output_report(1, subcommand, argument, outcome, <<128, subcommand>>)

\* an exception leaves the call in progress; out of __init__ it fails the
\* construction
CallerRaise(exc) ==
    /\ cres' = Raised(cres.of, exc)
    /\ cpc' = IF cpc \in CtorStages THEN "failed" ELSE "idle"

\* the locals of _spi_flash_read and _send_subcmd_get_response are gone
DropLocals ==
    /\ creport' = <<>>
    /\ ack' = 0
    /\ payload' = <<>>
    /\ cdisc' = <<>>

\* entry of _spi_flash_read(address, size) once the assert passed
StartSpi(address, size) ==
    /\ spi' = [address |-> address, size |-> size]
    /\ sub' = "write"
    /\ callW0' = devWrites
    /\ callR0' = creads
    /\ DropLocals

\* _spi_flash_read is left, by return or by exception
EndSpi ==
    /\ sub' = "none"
    /\ DropLocals
    /\ UNCHANGED <<spi, callW0, callR0>>

(* ----------------------------------------------------------------- __init__ *)
\* the order of __init__ and _read_controller_data (mutant: the thread is
\* started right after the calibration loader, before _setup_sensors)
CtorNextSetupSkipped(stage) ==
    CASE stage = "open" -> "rcd_color"
      [] stage = "rcd_color" -> "rcd_marker"
      [] stage = "rcd_marker" -> "rcd_imu"
      [] stage = "rcd_imu" -> "rcd_stick"
      [] stage = "rcd_stick" -> "start"
      [] stage = "setup_imu" -> "setup_mode"
      [] stage = "setup_mode" -> "start"
      [] stage = "start" -> "idle"

CtorNext(stage) ==
    CASE stage = "open" -> "rcd_color"
      [] stage = "rcd_color" -> "rcd_marker"
      [] stage = "rcd_marker" -> "rcd_imu"
      [] stage = "rcd_imu" -> "rcd_stick"
      [] stage = "rcd_stick" -> "setup_imu"
      [] stage = "setup_imu" -> "setup_mode"
      [] stage = "setup_mode" -> "start"
      [] stage = "start" -> "idle"

\* the address of the IMU calibration read, from the marker bytes
\* (mutant: the branches are swapped)
ImuCalAddrSwapped(m) ==
    IF m = <<178, 161>> THEN _SPI_IMU_FACTORY_CAL_ADDR ELSE _SPI_IMU_USER_CAL_ADDR

ImuCalAddr(m) ==
    IF m = <<178, 161>> THEN _SPI_IMU_USER_CAL_ADDR ELSE _SPI_IMU_FACTORY_CAL_ADDR

\* line 42, self._procon_device = self._open_device(); then the first SPI
\* read of _read_controller_data is entered (line 147)
OpenDevice ==
    /\ cpc = "open"
    /\ \E ok \in BOOLEAN :
        IF ok
        THEN /\ _procon_device' = TRUE
             /\ handle' = "open"
             /\ done' = done \cup {"open"}
             /\ cpc' = CtorNext(cpc)
             /\ StartSpi(_SPI_COLOR_DATA_ADDR, 6)
             /\ rcdLog' = Append(rcdLog, <<_SPI_COLOR_DATA_ADDR, 6>>)
             /\ UNCHANGED <<cres, closeCalls, marker>>
        ELSE /\ cpc' = "failed"
             /\ cres' = Raised("__init__", "IOError_connect")
             /\ UNCHANGED <<closeVars, spiVars, ctorVars>>
    /\ UNCHANGED <<sendVars, workerVars, calVars, otherVars>>
    /\ UNCHANGED <<statusVars, pureVars>>

(* ---------------------------------------------- _send_subcmd_get_response *)
\* line 102: the one write of the call
SendSubcmdWrite ==
    /\ sub = "write"
    /\ \E outcome \in WriteOutcomes, head \in SpiReplyHeads :
        /\ _write_output_report(1, 16, SpiArgument(spi.address, spi.size),
                                outcome, head)
        /\ IF outcome = "raise"
           THEN CallerRaise(WriteError) /\ EndSpi
           ELSE /\ sub' = "read"
                /\ UNCHANGED <<ctlVars, spi, callW0, callR0, creport, ack, payload,
                               cdisc>>
    /\ UNCHANGED <<closeVars, workerVars, calVars, ctorVars, otherVars>>
    /\ UNCHANGED <<statusVars, pureVars>>

\* lines 104-108: one blocking read; a report that is not a reply is dropped
\* and the loop reads again (only its first byte is remembered, in cdisc: the
\* next read overwrites `report`), a reply ends the loop
SendSubcmdRead ==
    /\ sub = "read"
    /\ _procon_device
    /\ devq # <<>>
    /\ devq' = Tail(devq)
    /\ creads' = creads + 1
    /\ IF IsSubcmdReply(Head(devq))
       THEN /\ creport' = Head(devq)
            /\ ack' = SubcmdAck(Head(devq))
            /\ payload' = SubcmdPayload(Head(devq))
            /\ sub' = "check"
            /\ UNCHANGED cdisc
       ELSE /\ cdisc' = Append(cdisc, At(Head(devq), 0))
            /\ UNCHANGED <<creport, ack, payload, sub>>
    /\ UNCHANGED <<_packet_number, pktLog, sendCalls, devWrites, lastWrite, faults,
                   closeVars, ctlVars, spi, callW0, callR0, workerVars, calVars,
                   ctorVars,
                   _input_report, _input_hooks, flash, emitted, calls>>
    /\ UNCHANGED <<statusVars, pureVars>>

(* ----------------------------------------------------------- _spi_flash_read *)
\* lines 124-128: the reply is refused
SpiCheckFails ==
    /\ sub = "check"
    /\ SpiCheck(ack, payload) # "ok"
    /\ CallerRaise(SpiCheck(ack, payload))
    /\ EndSpi
    /\ UNCHANGED <<sendVars, closeVars, workerVars, calVars, ctorVars, otherVars>>
    /\ UNCHANGED <<statusVars, pureVars>>

\* line 130 and lines 147-152: the color read returns, the marker read is entered
RcdColorDone ==
    /\ sub = "check" /\ cpc = "rcd_color"
    /\ SpiCheck(ack, payload) = "ok"
    /\ LET data == SpiData(payload, spi.size)
       IN  /\ color_body' = Slice(data, 0, 3)
           /\ color_btn' = Slice(data, 3, Len(data))
    /\ cpc' = CtorNext(cpc)
    /\ StartSpi(SPI_IMU_MARKER_ADDR, 2)
    /\ rcdLog' = Append(rcdLog, <<SPI_IMU_MARKER_ADDR, 2>>)
    /\ UNCHANGED <<sendVars, closeVars, cres, workerVars, calibration, done, marker,
                   otherVars>>
    /\ UNCHANGED <<statusVars, pureVars>>

\* lines 152-155: the marker read returns, one IMU calibration read is entered
RcdMarkerDone ==
    /\ sub = "check" /\ cpc = "rcd_marker"
    /\ SpiCheck(ack, payload) = "ok"
    /\ LET data == SpiData(payload, spi.size)
       IN  /\ marker' = data
           /\ StartSpi(ImuCalAddr(data), 24)
           /\ rcdLog' = Append(rcdLog, <<ImuCalAddr(data), 24>>)
    /\ cpc' = CtorNext(cpc)
    /\ UNCHANGED <<sendVars, closeVars, cres, workerVars, calVars, done, otherVars>>
    /\ UNCHANGED <<statusVars, pureVars>>

\* lines 153-161: the IMU read returns, _set_imu_calibration runs, and the
\* stick read is entered unless the calibration raised
RcdImuDone ==
    /\ sub = "check" /\ cpc = "rcd_imu"
    /\ SpiCheck(ack, payload) = "ok"
    /\ LET new == SetImuCalibration(calibration, SpiData(payload, spi.size))
       IN  /\ calibration' = [new EXCEPT !.exc = "none"]
           /\ IF new.exc # "none"
              THEN /\ CallerRaise(new.exc)
                   /\ EndSpi
                   /\ UNCHANGED rcdLog
              ELSE /\ cpc' = CtorNext(cpc)
                   /\ StartSpi(_SPI_STICK_CAL_ADDR, 9)
                   /\ rcdLog' = Append(rcdLog, <<_SPI_STICK_CAL_ADDR, 9>>)
                   /\ UNCHANGED cres
    /\ UNCHANGED <<sendVars, closeVars, workerVars, color_body, color_btn, done,
                   marker, otherVars>>
    /\ UNCHANGED <<statusVars, pureVars>>

\* lines 161-162: the stick read returns; _set_stick_calibration does nothing
RcdStickDone ==
    /\ sub = "check" /\ cpc = "rcd_stick"
    /\ SpiCheck(ack, payload) = "ok"
    /\ cpc' = CtorNext(cpc)
    /\ EndSpi
    /\ done' = done \cup {"rcd"}
    /\ UNCHANGED <<sendVars, closeVars, cres, workerVars, calVars, rcdLog, marker,
                   otherVars>>
    /\ UNCHANGED <<statusVars, pureVars>>

(* ------------------------------------------------------------ _setup_sensors *)
\* line 167: enable the 6-axis sensor
SetupImu ==
    /\ cpc = "setup_imu"
    /\ \E outcome \in WriteOutcomes :
        /\ PlainWrite(64, <<1>>, outcome)
        /\ IF outcome = "raise" THEN CallerRaise(WriteError)
           ELSE cpc' = CtorNext(cpc) /\ UNCHANGED cres
    /\ UNCHANGED <<closeVars, spiVars, workerVars, calVars, ctorVars, otherVars>>
    /\ UNCHANGED <<statusVars, pureVars>>

\* line 171: input report mode 0x30
SetupMode ==
    /\ cpc = "setup_mode"
    /\ \E outcome \in WriteOutcomes :
        /\ PlainWrite(3, <<48>>, outcome)
        /\ IF outcome = "raise"
           THEN CallerRaise(WriteError) /\ UNCHANGED done
           ELSE /\ cpc' = CtorNext(cpc)
                /\ done' = done \cup {"setup"}
                /\ UNCHANGED cres
    /\ UNCHANGED <<closeVars, spiVars, workerVars, calVars, rcdLog, marker,
                   otherVars>>
    /\ UNCHANGED <<statusVars, pureVars>>

\* lines 47-49: the worker thread is created and started; __init__ returns
StartThread ==
    /\ cpc = "start"
    /\ wpc' = "read"
    /\ cpc' = CtorNext(cpc)
    /\ done' = done \cup {"thread"}
    /\ UNCHANGED <<sendVars, closeVars, cres, spiVars, wreport, widx, wreads,
                   accepted, rounds, hookLog, calVars, rcdLog, marker,
                   otherVars>>
    /\ UNCHANGED <<statusVars, pureVars>>

(* ----------------------------------------------- calls after construction *)
\* arguments the caller passes: (address, size) and the lamp pattern
SpiCallArgs == {<<_SPI_COLOR_DATA_ADDR, 6>>, <<16909060, 29>>, <<16909060, 0>>,
                <<_SPI_COLOR_DATA_ADDR, 30>>}
LampPatterns == {5, 21}
HookKinds == {"return", "block", "raise"}

\* _spi_flash_read(address, size) called directly: line 120 refuses the size
\* or the call is entered
SpiFlashReadCall ==
    /\ cpc = "idle"
    /\ calls < MaxCalls
    /\ calls' = calls + 1
    /\ \E a \in SpiCallArgs :
        IF SpiSizeOk(a[2])
        THEN /\ cpc' = "spi"
             /\ StartSpi(a[1], a[2])
             /\ cres' = Begun("_spi_flash_read")
        ELSE /\ spi' = [address |-> a[1], size |-> a[2]]
             /\ cres' = Raised("_spi_flash_read", "AssertionError")
             /\ UNCHANGED <<cpc, sub, callW0, callR0, creport, ack, payload, cdisc>>
    /\ UNCHANGED <<sendVars, closeVars, workerVars, calVars, ctorVars,
                   _input_report, _input_hooks, flash, creads, emitted>>
    /\ UNCHANGED <<statusVars, pureVars>>

\* line 130: the direct call returns report[7:size+7]
SpiCallDone ==
    /\ sub = "check" /\ cpc = "spi"
    /\ SpiCheck(ack, payload) = "ok"
    /\ cres' = Returned("_spi_flash_read", SpiData(payload, spi.size))
    /\ cpc' = "idle"
    /\ EndSpi
    /\ UNCHANGED <<sendVars, closeVars, workerVars, calVars, ctorVars, otherVars>>
    /\ UNCHANGED <<statusVars, pureVars>>

\* set_player_lamp(pattern), at most `bound` times
LampCall(bound) ==
    /\ cpc = "idle"
    /\ calls < bound
    /\ calls' = calls + 1
    /\ \E pattern \in LampPatterns, outcome \in WriteOutcomes :
        /\ PlainWrite(48, <<AndF(pattern)>>, outcome)
        /\ cres' = IF outcome = "raise" THEN Raised("set_player_lamp", WriteError)
                   ELSE Returned("set_player_lamp", <<>>)
    /\ UNCHANGED <<closeVars, cpc, spiVars, workerVars, calVars, ctorVars,
                   _input_report, _input_hooks, flash, creads, emitted>>
    /\ UNCHANGED <<statusVars, pureVars>>

SetPlayerLamp == LampCall(MaxCalls)

SetPlayerLampBurst == LampCall(MaxBurst)

\* disconnect_device(), line 335: the write; _close() follows unless it raised
DisconnectDevice ==
    /\ cpc = "idle"
    /\ calls < MaxCalls
    /\ calls' = calls + 1
    /\ \E outcome \in WriteOutcomes :
        /\ PlainWrite(6, <<0>>, outcome)
        /\ IF outcome = "raise"
           THEN cres' = Raised("disconnect_device", WriteError) /\ UNCHANGED cpc
           ELSE cpc' = "close" /\ cres' = Begun("disconnect_device")
    /\ UNCHANGED <<closeVars, spiVars, workerVars, calVars, ctorVars,
                   _input_report, _input_hooks, flash, creads, emitted>>
    /\ UNCHANGED <<statusVars, pureVars>>

\* _close(): close the handle and delete the attribute, if it exists
_close ==
    IF _procon_device
    THEN /\ handle' = "closed"
         /\ closeCalls' = closeCalls + 1
         /\ _procon_device' = FALSE
    ELSE UNCHANGED <<handle, closeCalls, _procon_device>>

\* disconnect_device(), line 336
DisconnectClose ==
    /\ cpc = "close"
    /\ _close
    /\ cpc' = "idle"
    /\ cres' = Returned("disconnect_device", <<>>)
    /\ UNCHANGED <<sendVars, spiVars, workerVars, calVars, ctorVars, otherVars>>
    /\ UNCHANGED <<statusVars, pureVars>>

\* __del__(): of an object whose construction failed, or at the end of the
\* program
Del ==
    /\ \/ cpc = "failed" /\ UNCHANGED <<calls, cres>>
       \/ /\ cpc = "idle" /\ calls < MaxCalls /\ calls' = calls + 1
          /\ cres' = Returned("__del__", <<>>)
    /\ _close
    /\ cpc' = "gone"
    /\ UNCHANGED <<sendVars, spiVars, workerVars, calVars, ctorVars,
                   _input_report, _input_hooks, flash, creads, emitted>>
    /\ UNCHANGED <<statusVars, pureVars>>

\* the caller appends a hook to _input_hooks
RegisterHook ==
    /\ cpc = "idle"
    /\ calls < MaxCalls
    /\ calls' = calls + 1
    /\ _input_hooks' = Append(_input_hooks, Len(_input_hooks) + 1)
    /\ cres' = Returned("append", <<>>)
    /\ UNCHANGED <<sendVars, closeVars, cpc, spiVars, workerVars, calVars,
                   ctorVars, _input_report, flash, creads, emitted>>
    /\ UNCHANGED <<statusVars, pureVars>>

(* ------------------------------------------------------ _update_input_report *)
\* the filter of the poller (mutant: subcommand replies pass too)
IsFullReportOrReply(report) == At(report, 0) \in {48, 33}

IsFullReport(report) == At(report, 0) = 48

\* the hook the for loop invokes at loop index i (mutant: last hook first)
HookAtReversed(hooks, i) == hooks[Len(hooks) - i]

HookAt(hooks, i) == hooks[i + 1]

\* lines 135-137: one blocking read; a report that is not 0x30 is dropped (the
\* next read overwrites `report`)
WorkerRead ==
    /\ wpc = "read"
    /\ _procon_device
    /\ devq # <<>>
    /\ devq' = Tail(devq)
    /\ wreads' = wreads + 1
    /\ IF IsFullReport(Head(devq))
       THEN wreport' = Head(devq) /\ wpc' = "store" /\ accepted' = accepted + 1
       ELSE UNCHANGED <<wreport, wpc, accepted>>
    /\ UNCHANGED <<_packet_number, pktLog, sendCalls, devWrites, lastWrite, faults,
                   closeVars, ctlVars, spiVars, widx, rounds, hookLog,
                   calVars, ctorVars, otherVars>>
    /\ UNCHANGED <<statusVars, pureVars>>

\* lines 135-137 after _close(): the attribute is gone, the read raises and
\* the thread ends
WorkerReadRaises ==
    /\ wpc = "read"
    /\ ~_procon_device
    /\ wpc' = "dead"
    /\ wreport' = <<>>
    /\ UNCHANGED <<sendVars, closeVars, ctlVars, spiVars, widx, wreads, accepted,
                   rounds, hookLog, calVars, ctorVars, otherVars>>
    /\ UNCHANGED <<statusVars, pureVars>>

\* line 139 and the entry of the for loop
WorkerStore ==
    /\ wpc = "store"
    /\ _input_report' = wreport
    /\ rounds' = rounds + 1
    /\ hookLog' = <<>>
    /\ widx' = 0
    /\ wpc' = "hooks"
    /\ UNCHANGED <<sendVars, closeVars, ctlVars, spiVars, wreport, wreads, accepted,
                   calVars, ctorVars, _input_hooks, flash, creads, emitted, calls>>
    /\ UNCHANGED <<statusVars, pureVars>>

\* lines 141-142: callback(self) runs on the worker's thread: it returns and
\* the loop goes on, or it never returns, or it raises and ends the thread
WorkerHookCall ==
    /\ wpc = "hooks"
    /\ widx < Len(_input_hooks)
    /\ hookLog' = Append(hookLog, HookAt(_input_hooks, widx))
    /\ \E kind \in HookKinds :
           /\ wpc' = CASE kind = "return" -> "hooks"
                       [] kind = "block" -> "inhook"
                       [] kind = "raise" -> "dead"
           /\ widx' = IF kind = "return" THEN widx + 1 ELSE widx
    /\ UNCHANGED <<sendVars, closeVars, ctlVars, spiVars, wreport, wreads, accepted,
                   rounds, calVars, ctorVars, otherVars>>
    /\ UNCHANGED <<statusVars, pureVars>>

\* the for loop is exhausted; back to line 135
WorkerHooksDone ==
    /\ wpc = "hooks"
    /\ widx >= Len(_input_hooks)
    /\ wpc' = "read"
    /\ UNCHANGED <<sendVars, closeVars, ctlVars, spiVars, wreport, widx, wreads,
                   accepted, rounds, hookLog, calVars, ctorVars, otherVars>>
    /\ UNCHANGED <<statusVars, pureVars>>

(* ------------------------------------------------------------------ device *)
\* the device sends an input report on its own
DeviceEmit ==
    /\ handle = "open"
    /\ emitted < MaxSpont
    /\ emitted' = emitted + 1
    /\ \E r \in SpontaneousReports : devq' = Enqueue(devq, r)
    /\ UNCHANGED <<_packet_number, pktLog, sendCalls, devWrites, lastWrite, faults,
                   closeVars, ctlVars, spiVars, workerVars, calVars, ctorVars,
                   _input_report, _input_hooks, flash, creads, calls>>
    /\ UNCHANGED <<statusVars, pureVars>>

(* ---------------------------------------------------------------- get_status *)
RECURSIVE Pow2(_)
Pow2(k) == IF k = 0 THEN 1 ELSE 2 * Pow2(k - 1)

\* a | b
RECURSIVE BitOr(_, _)
BitOr(a, b) ==
    IF a = 0 THEN b
    ELSE IF b = 0 THEN a
    ELSE (IF a % 2 = 1 \/ b % 2 = 1 THEN 1 ELSE 0) + 2 * BitOr(a \div 2, b \div 2)

\* bool(report[byte_idx] & (1 << bit_idx))  (mutant: the shift is one too far)
_get_button_state_shifted(report, byte_idx, bit_idx) ==
    (At(report, byte_idx) \div Pow2(bit_idx + 1)) % 2 = 1

_get_button_state(report, byte_idx, bit_idx) ==
    (At(report, byte_idx) \div Pow2(bit_idx)) % 2 = 1

\* the "buttons" entries of get_status, in their order: name, byte, bit
ButtonTable ==
    << <<"a", 3, 3>>, <<"b", 3, 2>>, <<"x", 3, 1>>, <<"y", 3, 0>>,
       <<"plus", 4, 1>>, <<"minus", 4, 0>>, <<"home", 4, 4>>, <<"capture", 4, 5>>,
       <<"l", 5, 6>>, <<"zl", 5, 7>>, <<"r", 3, 6>>, <<"zr", 3, 7>>,
       <<"l-stick", 4, 3>>, <<"r-stick", 4, 2>>, <<"up", 5, 1>>, <<"down", 5, 0>>,
       <<"left", 5, 3>>, <<"right", 5, 2>> >>

ButtonNames == {ButtonTable[i][1] : i \in 1..Len(ButtonTable)}

ButtonEntry(name) ==
    ButtonTable[CHOOSE i \in 1..Len(ButtonTable) : ButtonTable[i][1] = name]

\* report[lbyte] | ((report[hbyte] & 0xF) << shift)
_get_stick_value(report, lbyte, hbyte, shift) ==
    BitOr(At(report, lbyte), AndF(At(report, hbyte)) * Pow2(shift))

\* int.from_bytes(report[offset:offset+2], 'little', signed=True)
SignedLittle16(report, offset) ==
    LET u == FromBytesLittle(Slice(report, offset, offset + 2))
    IN  IF u < 32768 THEN u ELSE u - 65536

\* (raw - offset) * coeff, the coefficient and the product as fractions
ImuValue(report, offset, off, coeff) ==
    <<(SignedLittle16(report, offset) - off) * coeff[1], coeff[2]>>

_get_accel_value(report, cal, axis) ==
    ImuValue(report, 13 + axis * 2, cal.accel_offset[axis + 1],
             cal.accel_coeff[axis + 1])

_get_gyro_value(report, cal, axis) ==
    ImuValue(report, 19 + axis * 2, cal.gyro_offset[axis + 1],
             cal.gyro_coeff[axis + 1])

_get_battery_charging(report) == (At(report, 2) \div 16) % 2 = 1

_get_battery_level(report) == At(report, 2) \div 32

\* the k-th group of the dict, decoded from the report stored at that moment
StatusGroup(k, report, cal) ==
    CASE k = 1 -> [charging |-> _get_battery_charging(report),
                   level |-> _get_battery_level(report)]
      [] k = 2 -> [name \in ButtonNames |->
                    _get_button_state(report, ButtonEntry(name)[2],
                                      ButtonEntry(name)[3])]
      [] k = 3 -> [left |-> [horizontal |-> _get_stick_value(report, 6, 7, 8),
                             vertical |-> _get_stick_value(report, 7, 8, 4)],
                   right |-> [horizontal |-> _get_stick_value(report, 9, 10, 8),
                              vertical |-> _get_stick_value(report, 10, 11, 4)]]
      [] k = 4 -> [axis \in 0..2 |-> _get_accel_value(report, cal, axis)]
      [] k = 5 -> [axis \in 0..2 |-> _get_gyro_value(report, cal, axis)]

\* get_status() with the report `report` stored throughout
StatusOf(report, cal) == [k \in 1..5 |-> StatusGroup(k, report, cal)]

\* get_status() is called
GetStatusCall ==
    /\ cpc = "idle"
    /\ calls < MaxCalls
    /\ calls' = calls + 1
    /\ cpc' = "status"
    /\ cres' = Begun("get_status")
    /\ snapshot' = <<>>
    /\ UNCHANGED <<sendVars, closeVars, spiVars, workerVars, calVars, ctorVars,
                   _input_report, _input_hooks, flash, creads, emitted, pureVars>>

\* lines 230-263: the dict is built group by group, each getter reading
\* self._input_report anew; the last group done, the dict is returned
GetStatusStep ==
    /\ cpc = "status"
    /\ LET group == StatusGroup(Len(snapshot) + 1, _input_report, calibration)
       IN  IF Len(snapshot) < 4
           THEN /\ snapshot' = Append(snapshot, group)
                /\ UNCHANGED ctlVars
           ELSE /\ cres' = Returned("get_status", Append(snapshot, group))
                /\ cpc' = "idle"
                /\ snapshot' = <<>>
    /\ UNCHANGED <<sendVars, closeVars, spiVars, workerVars, calVars, ctorVars,
                   otherVars, pureVars>>

(* ------------------------------------------------- functions on their own *)
\* button bytes to decode: no bit, each single bit, all bits
ButtonBytes == {0, 1, 2, 4, 8, 16, 32, 64, 128, 255}

\* get_status() of an object whose stored report is a 0x30 report with the
\* button bytes b3, b4, b5, and is not replaced during the call
GetStatusOfReport ==
    /\ arg = <<>>
    /\ \E b3 \in ButtonBytes, b4 \in ButtonBytes, b5 \in ButtonBytes :
        LET report == MkReport(0 :> 48 @@ 3 :> b3 @@ 4 :> b4 @@ 5 :> b5)
        IN  /\ arg' = <<report>>
            /\ res' = <<StatusOf(report, calibration)>>
    /\ UNCHANGED <<sendVars, closeVars, ctlVars, spiVars, workerVars, calVars,
                   ctorVars, otherVars, statusVars>>

\* to_int16le applied to a pair of bytes as _set_imu_calibration applies it:
\* the byte at the even offset first, the byte after it second
DecodeInt16 ==
    /\ arg = <<>>
    /\ \E first \in 0..255, second \in 0..255 :
        /\ arg' = <<first, second>>
        /\ res' = <<to_int16le(first, second)>>
    /\ UNCHANGED <<sendVars, closeVars, ctlVars, spiVars, workerVars, calVars,
                   ctorVars, otherVars, statusVars>>

(* ----------------------------------------------------------- specification *)
Construct ==
    \/ OpenDevice
    \/ SendSubcmdWrite
    \/ SendSubcmdRead
    \/ SpiCheckFails
    \/ RcdColorDone
    \/ RcdMarkerDone
    \/ RcdImuDone
    \/ RcdStickDone
    \/ SetupImu
    \/ SetupMode
    \/ StartThread

Next ==
    \/ Construct
    \/ SpiFlashReadCall
    \/ SpiCallDone
    \/ SetPlayerLamp
    \/ DisconnectDevice
    \/ DisconnectClose
    \/ Del
    \/ RegisterHook
    \/ GetStatusCall
    \/ GetStatusStep
    \/ WorkerRead
    \/ WorkerReadRaises
    \/ WorkerStore
    \/ WorkerHookCall
    \/ WorkerHooksDone
    \/ DeviceEmit

Spec == Init /\ [][Next]_vars

\* A quiet device (no report of its own) and a caller that registers no hook:
\* construction, then a run of sends.
NextSend ==
    \/ Construct
    \/ SpiFlashReadCall
    \/ SpiCallDone
    \/ SetPlayerLampBurst
    \/ DisconnectDevice
    \/ DisconnectClose
    \/ WorkerRead
    \/ WorkerReadRaises

SpecSend == Init /\ [][NextSend]_vars

\* Construction alone: the caller makes no call on the object it got (it may
\* drop it); the device and the worker go on.
NextInit ==
    \/ Construct
    \/ Del
    \/ WorkerRead
    \/ WorkerStore
    \/ WorkerHooksDone
    \/ DeviceEmit

SpecInit == Init /\ [][NextInit]_vars

\* Construction, then direct calls of _spi_flash_read beside the running
\* worker and a device that also sends reports of its own.
NextSpi ==
    \/ Construct
    \/ SpiFlashReadCall
    \/ SpiCallDone
    \/ WorkerRead
    \/ WorkerStore
    \/ WorkerHooksDone
    \/ DeviceEmit

SpecSpi == Init /\ [][NextSpi]_vars

\* Construction, then a caller that registers hooks and sets the player lamp
\* (whose replies the worker reads), beside the running worker.
NextPoll ==
    \/ Construct
    \/ SetPlayerLamp
    \/ RegisterHook
    \/ WorkerRead
    \/ WorkerStore
    \/ WorkerHookCall
    \/ WorkerHooksDone
    \/ DeviceEmit

SpecPoll == Init /\ [][NextPoll]_vars

\* Construction, then a caller that calls get_status beside the running
\* worker.
NextStatus ==
    \/ Construct
    \/ GetStatusCall
    \/ GetStatusStep
    \/ WorkerRead
    \/ WorkerStore
    \/ WorkerHooksDone
    \/ DeviceEmit

SpecStatus == Init /\ [][NextStatus]_vars

\* Construction and the sending operations on the caller's thread alone: the
\* worker thread, though started, never gets to run.
NextSolo ==
    \/ Construct
    \/ SpiFlashReadCall
    \/ SpiCallDone
    \/ SetPlayerLamp

SpecSolo == Init /\ [][NextSolo]_vars

\* Construction, then a caller that registers hooks and disconnects, beside
\* the running worker.
NextClose ==
    \/ Construct
    \/ RegisterHook
    \/ DisconnectDevice
    \/ DisconnectClose
    \/ WorkerRead
    \/ WorkerReadRaises
    \/ WorkerStore
    \/ WorkerHookCall
    \/ WorkerHooksDone
    \/ DeviceEmit

SpecClose == Init /\ [][NextClose]_vars

\* get_status as a function of the stored report
SpecDecode == Init /\ [][GetStatusOfReport]_vars

\* to_int16le as a function of its two bytes
SpecInt16 == Init /\ [][DecodeInt16]_vars

C2_CounterAdvancesOnEveryWrite ==
    [][devWrites' # devWrites
        => _packet_number' = (_packet_number + 1) % 16]_vars

\* C3: a direct _spi_flash_read with size > 0x1D ends at once with an
\* AssertionError: no write, no read, no send, the counter and the input
\* queue untouched, and no call left in progress.
SpiCallEntered ==
    /\ calls' = calls + 1
    /\ cres'.of = "_spi_flash_read"

C3_OversizeRejected ==
    [][(SpiCallEntered /\ spi'.size > 29)
        => /\ cres' = Raised("_spi_flash_read", "AssertionError")
           /\ cpc' = "idle" /\ sub' = "none"
           /\ devWrites' = devWrites /\ creads' = creads
           /\ sendCalls' = sendCalls
           /\ _packet_number' = _packet_number
           /\ devq' = devq /\ lastWrite' = lastWrite]_vars

C3_Witness ==
    /\ cres = Raised("_spi_flash_read", "AssertionError")
    /\ spi.size > 29
    /\ cpc = "idle"

\* C4: when _spi_flash_read leaves its checks, it goes on with data exactly
\* when bit 7 of report byte 13 is set and bytes 13, 14 are 0x90 0x10; with
\* the bit cleared it raises "read failed", with the bit set and other bytes
\* "unexpected response"; either way the call wrote exactly one request.
ReplyAckSet == (At(creport, 13) \div 128) % 2 = 1
ReplyHeadOk == At(creport, 13) = 144 /\ At(creport, 14) = 16
SpiRefused(exc) ==
    /\ cres' = Raised(cres.of, exc)
    /\ sub' = "none"
    /\ cpc' = IF cpc = "spi" THEN "idle" ELSE "failed"

C4_SpiValidates ==
    [][(sub = "check" /\ sub' # "check")
        => /\ devWrites' = callW0 + 1
           /\ sendCalls' = sendCalls
           /\ ~ReplyAckSet => SpiRefused("IOError_read_failed")
           /\ (ReplyAckSet /\ ~ReplyHeadOk) => SpiRefused("IOError_unexpected")
           /\ (ReplyAckSet /\ ReplyHeadOk)
                => (cres'.kind = "raise"
                      => cres'.val \notin {"IOError_read_failed",
                                           "IOError_unexpected"})]_vars

\* a direct call refused for its head although the ack bit was set
C4_Witness ==
    /\ cres = Raised("_spi_flash_read", "IOError_unexpected")
    /\ cpc = "idle"
    /\ devWrites = callW0 + 1

\* C5: a _spi_flash_read that succeeds hands on exactly `size` bytes, those at
\* report offsets 20..size+19 of the reply, and the request it wrote was
\* 01, counter, rumble, 10, the address in 4 little-endian bytes, the size.
SpiRequest(address, size, pkt) ==
    <<1, pkt, 0, 1, 64, 64, 0, 1, 64, 64, 16,
      address % 256, (address \div 256) % 256, (address \div 65536) % 256,
      (address \div 16777216) % 256, size>>

ReplyBytes(n) == [i \in 1..n |-> At(creport, 19 + i)]

C5_SpiReturnsSizeBytes ==
    [][(sub = "check" /\ sub' # "check" /\ cres'.kind # "raise")
        => /\ Len(creport) = 49
           /\ spi.size \in 0..29
           /\ lastWrite = SpiRequest(spi.address, spi.size,
                                     pktLog[Len(pktLog) - 1])
           /\ cpc = "spi"
                => cres' = Returned("_spi_flash_read", ReplyBytes(spi.size))
           /\ cpc = "rcd_color" => color_body' \o color_btn' = ReplyBytes(6)
           /\ cpc = "rcd_marker" => marker' = ReplyBytes(2)]_vars

\* a direct read of the largest size returned its 29 bytes
C5_Witness ==
    /\ cres.of = "_spi_flash_read" /\ cres.kind = "ok"
    /\ Len(cres.val) = 29
    /\ spi = [address |-> 16909060, size |-> 29]

\* C6: a _send_subcmd_get_response call writes once, then reads; every
\* report it read before returning had a first byte other than 0x21, the one
\* it returns on has first byte 0x21, it reads nothing after that one, and it
\* returns bit 7 of that report's byte 13 and that report's bytes from 13 on.
C6_State ==
    /\ sub = "write" => devWrites = callW0 /\ creads = callR0
    /\ sub \in {"read", "check"} => devWrites = callW0 + 1
    /\ sub # "none" => \A i \in 1..Len(cdisc) : cdisc[i] # 33
    /\ sub = "read" => creads = callR0 + Len(cdisc)
    /\ sub = "check"
        => /\ creads = callR0 + Len(cdisc) + 1
           /\ At(creport, 0) = 33
           /\ ack = 128 * ((At(creport, 13) \div 128) % 2)
           /\ payload = [i \in 1..(Len(creport) - 13) |-> At(creport, 12 + i)]

C6_Step ==
    /\ creads' # creads
        => /\ sub = "read"
           /\ creads' = creads + 1
           /\ devq # <<>> /\ devq' = Tail(devq)
           /\ sub' = IF At(Head(devq), 0) = 33 THEN "check" ELSE "read"
    /\ sub = "read" => sub' \in {"read", "check"}

C6_ReplyFilter == [](C6_State) /\ [][C6_Step]_vars

\* the call dropped a report and then returned on a reply
C6_Witness == sub = "check" /\ Len(cdisc) >= 1

\* C7: _read_controller_data reads color (0x6050, 6), marker (0x8026, 2),
\* one IMU calibration (0x8028 if the marker is B2 A1, else 0x6020; 24) and
\* stick calibration (0x603D, 9), in this order, one request each.
RcdExpected ==
    <<<<24656, 6>>, <<32806, 2>>,
      <<IF marker = <<178, 161>> THEN 32808 ELSE 24608, 24>>, <<24637, 9>>>>

C7_ControllerDataOrder ==
    /\ Len(rcdLog) <= 4
    /\ \A i \in 1..Len(rcdLog) : rcdLog[i] = RcdExpected[i]
    /\ "rcd" \in done => Len(rcdLog) = 4
    /\ cpc \in {"rcd_color", "rcd_marker", "rcd_imu", "rcd_stick"}
        => /\ spi = [address |-> rcdLog[Len(rcdLog)][1],
                     size |-> rcdLog[Len(rcdLog)][2]]
           /\ devWrites = Len(rcdLog) - (IF sub = "write" THEN 1 ELSE 0)

\* the loader finished on a device with user calibration
C7_Witness ==
    /\ "rcd" \in done
    /\ marker = <<178, 161>>
    /\ rcdLog[3] = <<32808, 24>>

\* C8: the worker exists only once _open_device, _read_controller_data and
\* _setup_sensors have all completed; while __init__ runs, and after it
\* failed, there is no worker and the worker has read nothing.
C8_WorkerAfterSetup ==
    /\ wpc # "none" <=> "thread" \in done
    /\ "thread" \in done
        => /\ {"open", "rcd", "setup"} \subseteq done
           /\ Len(rcdLog) = 4
           /\ Len(pktLog) >= 7
           /\ cpc \notin CtorStages /\ cpc # "failed"
    /\ (cpc \in CtorStages \/ cpc = "failed") => wpc = "none"
    /\ wpc = "none" => wreads = 0

\* the worker has read from the handle
C8_Witness == wreads > 0 /\ "setup" \in done

\* C9: the stored report is the initial buffer or a report read with first
\* byte 0x30, and every accepted 0x30 report starts exactly one hook round.
C9_State ==
    /\ rounds = 0 => _input_report = [i \in 1..49 |-> 0]
    /\ rounds > 0 => At(_input_report, 0) = 48
    /\ wpc \in {"store", "hooks", "inhook"} => At(wreport, 0) = 48
    /\ wpc \in {"hooks", "inhook"} => _input_report = wreport
    /\ wpc = "store" => accepted = rounds + 1
    /\ wpc \in {"read", "hooks", "inhook", "none"} => accepted = rounds
    /\ accepted \in {rounds, rounds + 1}
    /\ hookLog # <<>> => rounds > 0

C9_Step ==
    /\ _input_report' # _input_report
        => /\ wpc = "store"
           /\ _input_report' = wreport
           /\ rounds' = rounds + 1
    /\ accepted' # accepted
        => /\ wreads' = wreads + 1
           /\ devq # <<>> /\ At(Head(devq), 0) = 48
           /\ wreport' = Head(devq)
    /\ (wreads' # wreads /\ At(Head(devq), 0) # 48)
        => /\ accepted' = accepted /\ rounds' = rounds
           /\ _input_report' = _input_report /\ hookLog' = hookLog
           /\ wpc' = "read"

C9_PollerFilters == [](C9_State) /\ [][C9_Step]_vars

\* the worker dropped a report and stored another
C9_Witness == rounds >= 1 /\ wreads > accepted

\* C10: in a round the stored report is replaced first, then the hooks are
\* invoked one by one in registration order, each once; the worker reads
\* again only after the last hook returned, and never while a hook has not
\* returned.  A hook that raises ends the worker: like one that does not
\* return, it is followed by no read, no store and no hook call.
C10_State ==
    /\ wpc \in {"hooks", "inhook"} => _input_report = wreport
    /\ Len(hookLog) <= Len(_input_hooks)
    /\ \A i \in 1..Len(hookLog) : hookLog[i] = _input_hooks[i]
    /\ wpc = "hooks" => Len(hookLog) = widx
    /\ wpc = "inhook" => Len(hookLog) = widx + 1

C10_Step ==
    /\ hookLog' # hookLog /\ hookLog' # <<>>
        => /\ wpc = "hooks"
           /\ _input_report = wreport
           /\ hookLog' = Append(hookLog, _input_hooks[Len(hookLog) + 1])
    /\ wreads' # wreads => wpc = "read"
    /\ (wpc \in {"hooks", "inhook"} /\ wpc' = "read")
        => /\ wpc = "hooks"
           /\ hookLog = _input_hooks
    /\ wpc \in {"inhook", "dead"}
        => /\ wpc' = wpc
           /\ wreads' = wreads /\ accepted' = accepted
           /\ _input_report' = _input_report /\ hookLog' = hookLog

C10_HookRounds == [](C10_State) /\ [][C10_Step]_vars

\* a round with two hooks completed
C10_Witness == wpc = "read" /\ hookLog = <<1, 2>>

\* a hook that does not return holds the worker
C10_WitnessBlocked == wpc = "inhook" /\ devq # <<>>

\* C11 (as claimed): the stored report is always 49 bytes long with the
\* identifier 0x30 in its first byte, from construction onward.
C11_StoredReportFiltered ==
    /\ Len(_input_report) = _INPUT_REPORT_SIZE
    /\ At(_input_report, 0) = 48

\* C12 (as claimed): close is called on the handle at most once and only on
\* a handle that was opened; once the object is torn down an opened handle
\* was closed exactly once; and a disconnect_device on a controller whose
\* handle is already closed (or was never opened) raises nothing.
C12_State ==
    /\ closeCalls <= 1
    /\ handle = "none" => closeCalls = 0
    /\ handle = "closed" <=> closeCalls = 1
    /\ (cpc = "gone" /\ handle # "none") => closeCalls = 1
    /\ (cres = Returned("disconnect_device", <<>>)) => closeCalls = 1

C12_Step ==
    (calls' = calls + 1 /\ cres'.of = "disconnect_device" /\ ~_procon_device)
        => /\ cres'.kind # "raise"
           /\ closeCalls' = closeCalls

C12_CloseIdempotent == [](C12_State) /\ [][C12_Step]_vars

\* C13 (as claimed): until the device calibration is loaded every stored
\* offset is 0 and every stored coefficient is 1.
IsOne(fraction) == fraction[1] = fraction[2]

C13_DefaultsNeutral ==
    cpc \in {"open", "rcd_color", "rcd_marker", "rcd_imu"}
        => /\ calibration.accel_offset = <<0, 0, 0>>
           /\ calibration.gyro_offset = <<0, 0, 0>>
           /\ \A i \in 1..3 : /\ IsOne(calibration.accel_coeff[i])
                               /\ IsOne(calibration.gyro_coeff[i])

\* C14 (as claimed): no call ends with ZeroDivisionError, and once the
\* calibration loader has run every stored coefficient is 1 where the raw
\* coefficient c read from the flash equals the divisor D, and D/c elsewhere.
LoadedCal == [k \in 1..24 |-> FlashByte(flash, ImuCalAddr(marker) + k - 1)]

RuleCoefficient(D, c) == IF c = D THEN <<1, 1>> ELSE <<D, c>>

C14_NoDivisionByZero ==
    /\ cres.kind = "raise" => cres.val # "ZeroDivisionError"
    /\ "rcd" \in done
        => \A i \in 1..3 :
            /\ calibration.accel_coeff[i]
                 = RuleCoefficient(16384, CalValue(LoadedCal, 2 + i))
            /\ calibration.gyro_coeff[i]
                 = RuleCoefficient(13371, CalValue(LoadedCal, 8 + i))

\* C15 (as claimed): decoded from a report whose byte 3 is 0x08, the snapshot
\* has button "y" pressed and a, b, x, r, zr not pressed.
C15_ByteThreeBitThreeIsY ==
    (res # <<>> /\ At(arg[1], 3) = 8)
        => /\ res[1][2]["y"]
           /\ \A name \in {"a", "b", "x", "r", "zr"} : ~res[1][2][name]

\* C15 (amended): decoded from a report whose byte 3 is 0x08, the snapshot
\* has button "a" pressed and b, x, y, r, zr not pressed; each of the 18 named
\* buttons has its own (byte, bit) position in bytes 3..5 and is true exactly
\* when that bit of the stored report is set.
C15_ButtonsFollowTheirBits ==
    res # <<>>
        => LET report == arg[1]
               buttons == res[1][2]
           IN  /\ At(report, 3) = 8
                    => /\ buttons["a"]
                       /\ \A name \in {"b", "x", "y", "r", "zr"} : ~buttons[name]
               /\ DOMAIN buttons = ButtonNames
               /\ Cardinality(ButtonNames) = 18
               /\ \A i \in 1..18 :
                    /\ ButtonTable[i][2] \in 3..5 /\ ButtonTable[i][3] \in 0..7
                    /\ \A j \in 1..18 :
                        (ButtonTable[i][2] = ButtonTable[j][2]
                            /\ ButtonTable[i][3] = ButtonTable[j][3]) => i = j
                    /\ buttons[ButtonTable[i][1]]
                        <=> (At(report, ButtonTable[i][2])
                                \div (2 ^ ButtonTable[i][3])) % 2 = 1

\* a report with byte 3 = 0x08 and bits of bytes 4 and 5 set was decoded
C15_Witness ==
    /\ res # <<>>
    /\ At(arg[1], 3) = 8 /\ At(arg[1], 4) = 16 /\ At(arg[1], 5) = 128
    /\ res[1][2]["a"] /\ res[1][2]["home"] /\ res[1][2]["zl"]

\* C16: every pair of bytes decodes to a value in -32768..32767 whose
\* two-byte little-endian two's-complement encoding (low byte first) is that
\* pair; every value of the range has such a pair, so encoding a value and
\* decoding the pair returns the value.
Int16Encode(v) == ToBytesLittle(IF v < 0 THEN v + 65536 ELSE v, 2)

C16_Int16RoundTrip ==
    res # <<>>
        => /\ res[1] \in -32768..32767
           /\ Int16Encode(res[1]) = arg
           /\ \A v \in {-32768, -2, -1, 0, 1, 255, 256, 32767} :
                arg = Int16Encode(v) => res[1] = v

\* the pair 00 80, the encoding of -32768, was decoded
C16_Witness ==
    /\ arg = <<0, 128>>
    /\ arg = Int16Encode(-32768)
    /\ res = <<-32768>>

\* C17: a direct call and the worker read the same queue with nothing to
\* decide between them.  Whenever both wait for a report and one is there,
\* either may take it.  A 0x21 report the worker takes is dropped: it is not
\* stored and the caller, still waiting, does not get it; the caller leaves
\* its loop only by reading a 0x21 report itself.  A 0x30 report the caller
\* takes is dropped: the caller keeps waiting, and the worker, which accepts
\* only what it read itself, neither stores it nor starts a hook round.
C17_State ==
    (cpc = "spi" /\ sub = "read" /\ wpc = "read" /\ devq # <<>>)
        => ENABLED WorkerRead /\ ENABLED SendSubcmdRead

C17_Step ==
    /\ (wreads' = wreads + 1 /\ At(Head(devq), 0) = 33)
        => /\ devq' = Tail(devq)
           /\ accepted' = accepted /\ rounds' = rounds
           /\ _input_report' = _input_report /\ wpc' = "read"
           /\ creads' = creads /\ creport' = creport
           /\ sub' = sub /\ cpc' = cpc /\ cres' = cres
    /\ (creads' = creads + 1 /\ At(Head(devq), 0) = 48)
        => /\ devq' = Tail(devq)
           /\ sub' = "read" /\ cpc' = cpc /\ cres' = cres
           /\ wreads' = wreads /\ accepted' = accepted /\ rounds' = rounds
           /\ wpc' = wpc /\ wreport' = wreport
           /\ _input_report' = _input_report /\ hookLog' = hookLog
    /\ (sub = "read" /\ sub' # "read")
        => creads' = creads + 1 /\ At(Head(devq), 0) = 33
    /\ accepted' # accepted
        => wreads' = wreads + 1 /\ At(Head(devq), 0) = 48

C17_NoArbitration == [](C17_State) /\ [][C17_Step]_vars

\* the first direct call after a construction the device did not disturb:
\* the worker has read three reports, none of them 0x30 (the two replies to
\* _setup_sensors and the reply to this call), the caller has read and dropped
\* the one 0x30 report the device sent, and waits at an empty queue
C17_Witness ==
    /\ cpc = "spi" /\ sub = "read" /\ calls = 1
    /\ faults = 0 /\ devWrites = callW0 + 1
    /\ wreads = 3 /\ accepted = 0
    /\ emitted = 1 /\ cdisc = <<48>>
    /\ devq = <<>>

\* C18: every snapshot get_status returns is decoded from one stored report:
\* it is the decoding of the initial report or of one report the device sent,
\* never a mixture of groups taken from two of them.
C18_SnapshotOfOneReport ==
    (cres.of = "get_status" /\ cres.kind = "ok")
        => \E r \in {ZeroBytes(_INPUT_REPORT_SIZE)} \cup SpontaneousReports :
              cres.val = StatusOf(r, calibration)

\* C19: while every write was answered with one reply, nothing was lost,
\* the device sent nothing on its own and only the caller has read, the reply
\* that ends the read loop of _send_subcmd_get_response is the reply the
\* device made for the report that same call wrote.
C19_Undisturbed ==
    /\ faults = 0 /\ emitted = 0 /\ wreads = 0
    /\ devWrites = creads + Len(devq)

C19_Step ==
    (sub = "read" /\ sub' = "check" /\ C19_Undisturbed)
        => \E head \in SpiReplyHeads :
              creport' = DeviceReply(flash, lastWrite, head)

C19_ReplyIsOwn == [][C19_Step]_vars

\* C20: once _close has closed the handle, the worker reads no report,
\* _input_report is not replaced (no store happens) and no hook is invoked.
C20_Step ==
    handle = "closed"
        => /\ wreads' = wreads
           /\ rounds' = rounds /\ _input_report' = _input_report
           /\ hookLog' = hookLog

C20_QuietAfterClose == [][C20_Step]_vars

====
